---- MODULE Spec2Model ----
(***************************************************************************)
(* Model of prisma-adapter-node-sqlite: the queryable, the transaction     *)
(* object, the adapter with its async-mutex lock, and the node:sqlite      *)
(* connection handle they drive.                                           *)
(*                                                                         *)
(* Callers are the concurrent async callers of startTransaction; each      *)
(* holds at most one transaction handle.  Spec, SpecQuery and SpecLock     *)
(* model one adapter; the lock's queue order shows only with two callers   *)
(* waiting behind a holder, so SpecLock has one caller more than Spec.     *)
(* SpecFactory, SpecOptions and SpecConnect model the factory and the      *)
(* adapters it makes: connections and locks are objects on a heap, in      *)
(* order of creation, and adapters and transactions refer to them.         *)
(***************************************************************************)
EXTENDS Integers, Sequences, FiniteSets, TLC

\* ------------------------------------------------------------------ bounds
NCallers == 2
MaxRows == 3
MaxAdapters == 2

Callers == 1..NCallers

LockCallers == 1..(NCallers + 1)

VARIABLES
    db,         \* the node:sqlite handle: [open, inTx]
    mutex,      \* the adapter's #mutex: [value, queue] (async-mutex semaphore of 1)
    tx,         \* per caller: where its startTransaction call / transaction is
    released,   \* per caller: the `called` flag of the releaser its acquisition got
    last,       \* the handler step that ran last: its inputs, engine calls and outcome
    factory,    \* the factory's #config and #options
    handles,    \* the DatabaseSync objects the factory opened, in order of creation
    mutexes,    \* the Mutex objects the adapters constructed, in order of creation
    adapters,   \* the adapters the factory returned: [client, mutex, adapterOptions]
    txns,       \* per caller: its startTransaction call / transaction on one of them
    issued      \* the engine calls of the factory or adapter step that ran last

adapterVars == <<db, mutex, tx, released, last>>

factoryVars == <<factory, handles, mutexes, adapters, txns, issued>>

vars == <<db, mutex, tx, released, last, factory, handles, mutexes, adapters, txns, issued>>

\* ------------------------------------------------------- numbers (number | bigint)
\* A non-negative integer below 2^60 is kept as two limbs of 30 bits, because a
\* change count may be wider than 32 bits: value = hi * 2^30 + lo.
Limb == 2^30

Num(h, l) == [hi |-> h, lo |-> l]

Zero == Num(0, 0)

U32Max == Num(3, Limb - 1)

InU32(n) == n.hi <= U32Max.hi /\ n.lo <= U32Max.lo

RECURSIVE BitLen(_)
BitLen(n) == IF n = 0 THEN 0 ELSE 1 + BitLen(n \div 2)

\* JavaScript Number(x): the nearest IEEE-754 double (53-bit significand,
\* round half to even).  Exact below 2^53.
ToNumber(n) ==
    IF n.hi < 2^23 THEN n
    ELSE LET shift == BitLen(n.hi) - 23
             unit == 2^shift
             q == n.lo \div unit
             r == n.lo % unit
             half == unit \div 2
             up == r > half \/ (r = half /\ q % 2 = 1)
             lo2 == (IF up THEN q + 1 ELSE q) * unit
         IN IF lo2 = Limb THEN Num(n.hi + 1, 0) ELSE Num(n.hi, lo2)

\* ------------------------------------------------------------ isolation levels
NoLevel == "undefined"

IsolationLevels ==
    {"READ UNCOMMITTED", "READ COMMITTED", "REPEATABLE READ", "SNAPSHOT", "SERIALIZABLE"}

Levels == IsolationLevels \cup {NoLevel}

\* ---------------------------------------------------------------- the engine
\* node:sqlite as the adapter uses it.  A statement's behaviour that depends on
\* the database content is an input (resp): the columns it yields, the rows,
\* the change count, and whether prepare, bind or step fails.
NoError == "none"

ClosedError == "ERR_INVALID_STATE"

EnginePrepare(d, sql, resp) ==
    IF ~d.open THEN ClosedError
    ELSE IF resp.fault = "prepare" THEN "SQLITE_ERROR"
    ELSE NoError

\* stmt.run(...args) / stmt.all(...args): bind, then step.
EngineStep(d, sql, resp) ==
    IF resp.fault = "bind" THEN [err |-> "ERR_INVALID_ARG_TYPE", db |-> d]
    ELSE IF resp.fault = "step" THEN [err |-> "SQLITE_CONSTRAINT_UNIQUE", db |-> d]
    ELSE IF sql = "BEGIN" THEN
        IF d.inTx THEN [err |-> "SQLITE_ERROR", db |-> d]
        ELSE [err |-> NoError, db |-> [d EXCEPT !.inTx = TRUE]]
    ELSE IF sql \in {"COMMIT", "ROLLBACK"} THEN
        IF ~d.inTx THEN [err |-> "SQLITE_ERROR", db |-> d]
        ELSE [err |-> NoError, db |-> [d EXCEPT !.inTx = FALSE]]
    ELSE [err |-> NoError, db |-> d]

\* client.exec(script)
EngineExec(d, script, resp) ==
    IF ~d.open THEN [err |-> ClosedError, db |-> d]
    ELSE IF resp.fault = "prepare" THEN [err |-> "SQLITE_ERROR", db |-> d]
    ELSE EngineStep(d, script, resp)

\* client.close()
EngineClose(d) ==
    IF ~d.open THEN [err |-> ClosedError, db |-> d]
    ELSE [err |-> NoError, db |-> [open |-> FALSE, inTx |-> FALSE]]

\* ------------------------------------------------------------ value converter
\* conversion.js: the engine's cell values are kept as text: "null", the
\* integer "5" and the string "x".
NullValue == "null"

Values == {NullValue, "5", "x"}

NoDeclType == "null"

DeclTypes == {NoDeclType, "INTEGER", "TEXT"}

mapDeclType(declType) ==
    CASE declType = "INTEGER" -> "integer"
      [] declType = "TEXT" -> "text"
      [] OTHER -> "undefined"

inferColumnType(value) ==
    IF value = "x" THEN "text" ELSE "integer"

\* The type of column i when the engine declares none: that of the first
\* non-null value in row order, "unknown" when there is none.
RECURSIVE inferFromRows(_, _, _)
inferFromRows(i, rows, k) ==
    IF k > Len(rows) THEN "unknown"
    ELSE IF rows[k][i] # NullValue THEN inferColumnType(rows[k][i])
    ELSE inferFromRows(i, rows, k + 1)

getColumnTypes(declaredTypes, rows) ==
    [i \in 1..Len(declaredTypes) |->
        IF mapDeclType(declaredTypes[i]) # "undefined"
        THEN mapDeclType(declaredTypes[i])
        ELSE inferFromRows(i, rows, 1)]

\* A converted cell keeps the engine value and the column type it was
\* converted under.
mapRow(row, columnTypes) ==
    [i \in 1..Len(row) |-> [v |-> row[i], as |-> columnTypes[i]]]

\* A DateTime argument is the instant one second after the epoch; it is bound
\* as text or as milliseconds, by the adapter's timestampFormat.
DateTimeArg == "1970-01-01T00:00:01.000Z"

Undefined == "undefined"

timestampFormatOf(adapterOptions) ==
    IF adapterOptions.timestampFormat = Undefined THEN "iso8601"
    ELSE adapterOptions.timestampFormat

mapArg(arg, argType, adapterOptions) ==
    IF argType = "Boolean" THEN (IF arg = "true" THEN "1" ELSE "0")
    ELSE IF argType = "DateTime"
    THEN (IF timestampFormatOf(adapterOptions) = "unixepoch-ms" THEN "1000"
          ELSE "1970-01-01T00:00:01.000+00:00")
    ELSE arg

\* ------------------------------------------------------------ error translator
NoErr == [name |-> "none", kind |-> "none", level |-> NoLevel, code |-> NoError]

\* errors.js
convertDriverError(e) ==
    [kind |-> IF e = "SQLITE_CONSTRAINT_UNIQUE" THEN "UniqueConstraintViolation" ELSE "sqlite",
     level |-> NoLevel,
     code |-> e]

DriverAdapterError(cause) ==
    [name |-> "DriverAdapterError", kind |-> cause.kind, level |-> cause.level,
     code |-> cause.code]

\* ------------------------------------------------------------------ queryable
NoQuery == [sql |-> "", args |-> <<>>, argTypes |-> <<>>]

NoResp == [fault |-> "none", columns |-> <<>>, rows |-> <<>>, changes |-> Zero]

NoResult ==
    [kind |-> "none", columnNames |-> <<>>, columnTypes |-> <<>>, rows |-> <<>>,
     count |-> Zero]

EmptyResultSet == [declaredTypes |-> <<>>, columnNames |-> <<>>, values |-> <<>>]

\* One call of an engine method, with the SQL text it was given or was
\* prepared from.
Call(method, sql) == [method |-> method, sql |-> sql]

CallsOf(methods, sql) == [i \in 1..Len(methods) |-> Call(methods[i], sql)]

\* Mutant of onError: the engine's error is logged and dropped.
onErrorSwallowed(e) == NoErr

\* The error onError throws for the engine error e.
onError(e) == DriverAdapterError(convertDriverError(e))

\* What a handler did: the engine methods it called, the error the engine
\* raised (if any), the handle afterwards, the error thrown to the caller
\* (NoErr when it returned), the value returned and the arguments bound.
Outcome(calls, engineErr, d, err, result, boundArgs) ==
    [calls |-> calls, engineErr |-> engineErr, db |-> d, err |-> err,
     result |-> result, boundArgs |-> boundArgs]

mapArgs(query, adapterOptions) ==
    [i \in 1..Len(query.args) |-> mapArg(query.args[i], query.argTypes[i], adapterOptions)]

executeIO(d, query, resp, adapterOptions) ==
    LET args == mapArgs(query, adapterOptions)
        pe == EnginePrepare(d, query.sql, resp)
        s == EngineStep(d, query.sql, resp)
    IN IF pe # NoError
       THEN Outcome(CallsOf(<<"prepare">>, query.sql), pe, d, onError(pe), NoResult, <<>>)
       ELSE IF s.err # NoError
       THEN Outcome(CallsOf(<<"prepare", "run">>, query.sql), s.err, s.db, onError(s.err),
                    NoResult, args)
       ELSE Outcome(CallsOf(<<"prepare", "run">>, query.sql), NoError, s.db, NoErr,
                    [NoResult EXCEPT !.kind = "meta", !.count = ToNumber(resp.changes)],
                    args)

executeRaw(d, query, resp, adapterOptions) ==
    LET io == executeIO(d, query, resp, adapterOptions)
    IN IF io.err # NoErr THEN io
       ELSE [io EXCEPT !.result = [NoResult EXCEPT !.kind = "count", !.count = io.result.count]]

\* Mutant of performIO: no branch for a statement without columns, which is
\* stepped with all() like any other.
performIOAlwaysAll(d, query, resp, adapterOptions) ==
    LET args == mapArgs(query, adapterOptions)
        pe == EnginePrepare(d, query.sql, resp)
        s == EngineStep(d, query.sql, resp)
        pre == <<"prepare", "setReturnArrays", "setReadBigInts", "columns">>
        raw(rs) == [kind |-> "raw", rs |-> rs]
    IN IF pe # NoError
       THEN Outcome(CallsOf(<<"prepare">>, query.sql), pe, d, onError(pe),
                    raw(EmptyResultSet), <<>>)
       ELSE IF s.err # NoError
            THEN Outcome(CallsOf(Append(pre, "all"), query.sql), s.err, s.db, onError(s.err),
                         raw(EmptyResultSet), args)
            ELSE Outcome(CallsOf(Append(pre, "all"), query.sql), NoError, s.db, NoErr,
                         raw([declaredTypes |-> [i \in 1..Len(resp.columns) |-> resp.columns[i].type],
                              columnNames |-> [i \in 1..Len(resp.columns) |-> resp.columns[i].name],
                              values |-> resp.rows]),
                         args)

performIO(d, query, resp, adapterOptions) ==
    LET args == mapArgs(query, adapterOptions)
        pe == EnginePrepare(d, query.sql, resp)
        s == EngineStep(d, query.sql, resp)
        pre == <<"prepare", "setReturnArrays", "setReadBigInts", "columns">>
        raw(rs) == [kind |-> "raw", rs |-> rs]
    IN IF pe # NoError
       THEN Outcome(CallsOf(<<"prepare">>, query.sql), pe, d, onError(pe),
                    raw(EmptyResultSet), <<>>)
       ELSE IF Len(resp.columns) = 0
       THEN IF s.err # NoError
            THEN Outcome(CallsOf(Append(pre, "run"), query.sql), s.err, s.db, onError(s.err),
                         raw(EmptyResultSet), args)
            ELSE Outcome(CallsOf(Append(pre, "run"), query.sql), NoError, s.db, NoErr,
                         raw(EmptyResultSet), args)
       ELSE IF s.err # NoError
            THEN Outcome(CallsOf(Append(pre, "all"), query.sql), s.err, s.db, onError(s.err),
                         raw(EmptyResultSet), args)
            ELSE Outcome(CallsOf(Append(pre, "all"), query.sql), NoError, s.db, NoErr,
                         raw([declaredTypes |-> [i \in 1..Len(resp.columns) |-> resp.columns[i].type],
                              columnNames |-> [i \in 1..Len(resp.columns) |-> resp.columns[i].name],
                              values |-> resp.rows]),
                         args)

\* Mutant of queryRaw: the column types are computed for each row on its own.
queryRawPerRow(d, query, resp, adapterOptions) ==
    LET io == performIO(d, query, resp, adapterOptions)
        rows == io.result.rs.values
        columnTypes == getColumnTypes(io.result.rs.declaredTypes, rows)
    IN IF io.err # NoErr THEN [io EXCEPT !.result = NoResult]
       ELSE [io EXCEPT !.result =
                [kind |-> "resultset",
                 columnNames |-> io.result.rs.columnNames,
                 columnTypes |-> columnTypes,
                 rows |-> [k \in 1..Len(rows) |->
                              mapRow(rows[k],
                                     getColumnTypes(io.result.rs.declaredTypes, <<rows[k]>>))],
                 count |-> Zero]]

queryRaw(d, query, resp, adapterOptions) ==
    LET io == performIO(d, query, resp, adapterOptions)
        rows == io.result.rs.values
        columnTypes == getColumnTypes(io.result.rs.declaredTypes, rows)
    IN IF io.err # NoErr THEN [io EXCEPT !.result = NoResult]
       ELSE [io EXCEPT !.result =
                [kind |-> "resultset",
                 columnNames |-> io.result.rs.columnNames,
                 columnTypes |-> columnTypes,
                 rows |-> [k \in 1..Len(rows) |-> mapRow(rows[k], columnTypes)],
                 count |-> Zero]]

executeScript(d, script, resp) ==
    LET x == EngineExec(d, script, resp)
    IN IF x.err # NoError
       THEN Outcome(CallsOf(<<"exec">>, script), x.err, x.db, onError(x.err), NoResult, <<>>)
       ELSE Outcome(CallsOf(<<"exec">>, script), NoError, x.db, NoErr,
                    [NoResult EXCEPT !.kind = "void"], <<>>)

\* ---------------------------------------------------------------------- mutex
\* Mutant of MutexAcquire: the lock is handed over without waiting for it.
MutexAcquireNoWait(m, c) ==
    [m |-> [m EXCEPT !.value = 0], granted |-> TRUE]

\* async-mutex Mutex: a semaphore of value 1 with a FIFO queue of waiters.
\* acquire() takes the lock at once when it is free and nobody queues, and
\* queues the caller otherwise.
MutexAcquire(m, c) ==
    IF m.queue = <<>> /\ m.value >= 1
    THEN [m |-> [m EXCEPT !.value = m.value - 1], granted |-> TRUE]
    ELSE [m |-> [m EXCEPT !.queue = Append(m.queue, c)], granted |-> FALSE]

\* Mutant of MutexRelease: the waiter that queued last is admitted first.
MutexReleaseNewestFirst(m) ==
    IF m.queue # <<>> /\ m.value + 1 >= 1
    THEN [m |-> [value |-> m.value, queue |-> SubSeq(m.queue, 1, Len(m.queue) - 1)],
          woken |-> {m.queue[Len(m.queue)]}]
    ELSE [m |-> [m EXCEPT !.value = m.value + 1], woken |-> {}]

\* release(): give the unit back and hand it to the first waiter, if any.
MutexRelease(m) ==
    IF m.queue # <<>> /\ m.value + 1 >= 1
    THEN [m |-> [value |-> m.value, queue |-> Tail(m.queue)], woken |-> {Head(m.queue)}]
    ELSE [m |-> [m EXCEPT !.value = m.value + 1], woken |-> {}]

\* Mutant of Releaser: every call of the releaser releases the lock.
ReleaserEveryCall(m, called) == MutexRelease(m)

\* The releaser acquire() resolves to: it releases once, later calls do nothing.
Releaser(m, called) ==
    IF called THEN [m |-> m, woken |-> {}] ELSE MutexRelease(m)

\* -------------------------------------------------------------------- adapter
AdapterOptions == [timestampFormat |-> "iso8601"]

TransactionOptions == [usePhantomQuery |-> FALSE]

\* The states of a caller's startTransaction call and of the transaction it got.
\*   Idle        no call in flight and no transaction (none made yet, or the
\*               last one was refused on its isolation level)
\*   Waiting     queued in mutex.acquire()
\*   Acquired    the lock was handed over, the continuation has not run BEGIN yet
\*   Failed      BEGIN failed, the call failed
\*   Open        BEGIN ran, the transaction was returned
\*   Committed, RolledBack   commit() / rollback() was called on it
Settled == {"Idle", "Failed", "Committed", "RolledBack"}

HasHandle == {"Open", "Committed", "RolledBack"}

Terminal == {"Committed", "RolledBack"}

Record(op, on, c, level, query, resp, out) ==
    [op |-> op, on |-> on, caller |-> c, level |-> level, query |-> query,
     resp |-> resp, calls |-> out.calls, engineErr |-> out.engineErr,
     err |-> out.err, result |-> out.result, boundArgs |-> out.boundArgs]

NoOutcome(d) == Outcome(<<>>, NoError, d, NoErr, NoResult, <<>>)

\* Mutant of IsolationRejected: only the weakest level is refused.
IsolationRejectedLax(isolationLevel) ==
    isolationLevel = "READ UNCOMMITTED"

\* startTransaction, line 209: the isolation levels that are refused.
IsolationRejected(isolationLevel) ==
    isolationLevel # NoLevel /\ isolationLevel # "SERIALIZABLE"

InvalidIsolationLevel(isolationLevel) ==
    DriverAdapterError([kind |-> "InvalidIsolationLevel", level |-> isolationLevel,
                        code |-> NoError])

\* startTransaction up to its await: the isolation check, then mutex.acquire().
StartTransaction(c, isolationLevel) ==
    /\ tx[c] \in Settled
    /\ IF IsolationRejected(isolationLevel)
       THEN /\ last' = Record("startTransaction", "adapter", {c}, isolationLevel, NoQuery,
                              NoResp,
                              [NoOutcome(db) EXCEPT !.err = InvalidIsolationLevel(isolationLevel)])
            /\ UNCHANGED <<db, mutex, tx, released>>
       ELSE LET a == MutexAcquire(mutex, c)
            IN /\ mutex' = a.m
               /\ tx' = [tx EXCEPT ![c] = IF a.granted THEN "Acquired" ELSE "Waiting"]
               /\ released' = [released EXCEPT ![c] = FALSE]
               /\ last' = Record("startTransaction", "adapter", {c}, isolationLevel,
                                 NoQuery, NoResp,
                                 [NoOutcome(db) EXCEPT !.result.kind = "pending"])
               /\ UNCHANGED db

\* this.client.prepare('BEGIN').run(), and what the catch does with a failure.
BeginTransaction(d) ==
    LET pe == EnginePrepare(d, "BEGIN", NoResp)
        s == EngineStep(d, "BEGIN", NoResp)
    IN IF pe # NoError
       THEN Outcome(CallsOf(<<"prepare">>, "BEGIN"), pe, d, onError(pe), NoResult, <<>>)
       ELSE IF s.err # NoError
       THEN Outcome(CallsOf(<<"prepare", "run">>, "BEGIN"), s.err, s.db, onError(s.err),
                    NoResult, <<>>)
       ELSE Outcome(CallsOf(<<"prepare", "run">>, "BEGIN"), NoError, s.db, NoErr,
                    [NoResult EXCEPT !.kind = "transaction"], <<>>)

\* startTransaction after its await: the caller holds the lock, runs BEGIN and
\* returns the transaction.  When BEGIN fails the catch only rethrows through
\* onError: the releaser is a local of the try block and is dropped uncalled.
ResumeStartTransaction(c) ==
    /\ tx[c] = "Acquired"
    /\ LET out == BeginTransaction(db)
       IN /\ db' = out.db
          /\ tx' = [tx EXCEPT ![c] = IF out.err # NoErr THEN "Failed" ELSE "Open"]
          /\ last' = Record("startTransaction.resume", "adapter", {c}, NoLevel,
                            [NoQuery EXCEPT !.sql = "BEGIN"], NoResp, out)
    /\ UNCHANGED <<mutex, released>>

\* Mutant of EndTransaction: commit / rollback end the engine's transaction
\* with a statement of their own before they release the lock.
EndTransactionWithSql(c, op, state) ==
    /\ tx[c] \in HasHandle
    /\ LET rel == Releaser(mutex, released[c])
           sql == IF op = "commit" THEN "COMMIT" ELSE "ROLLBACK"
           x == EngineExec(db, sql, NoResp)
       IN /\ mutex' = rel.m
          /\ released' = [released EXCEPT ![c] = TRUE]
          /\ tx' = [d \in DOMAIN tx |->
                       IF d = c THEN (IF tx[c] = "Open" THEN state ELSE tx[c])
                       ELSE IF d \in rel.woken THEN "Acquired" ELSE tx[d]]
          /\ db' = x.db
          /\ last' = Record(op, "tx", {c}, NoLevel, NoQuery, NoResp,
                            Outcome(CallsOf(<<"exec">>, sql), x.err, x.db,
                                    IF x.err = NoError THEN NoErr ELSE onError(x.err),
                                    [NoResult EXCEPT !.kind = "void"], <<>>))

\* NodeSQLiteTransaction.commit / rollback: this.#unlockParent() and nothing else.
EndTransaction(c, op, state) ==
    /\ tx[c] \in HasHandle
    /\ LET rel == Releaser(mutex, released[c])
       IN /\ mutex' = rel.m
          /\ released' = [released EXCEPT ![c] = TRUE]
          /\ tx' = [d \in DOMAIN tx |->
                       IF d = c THEN (IF tx[c] = "Open" THEN state ELSE tx[c])
                       ELSE IF d \in rel.woken THEN "Acquired" ELSE tx[d]]
          /\ last' = Record(op, "tx", {c}, NoLevel, NoQuery, NoResp,
                            [NoOutcome(db) EXCEPT !.result.kind = "void"])
          /\ UNCHANGED db

Commit(c) == EndTransaction(c, "commit", "Committed")

Rollback(c) == EndTransaction(c, "rollback", "RolledBack")

\* Mutant of TxQueryRaw: a failed statement ends the transaction, rolling it
\* back and giving the lock up.
TxQueryRawAutoRollback(c, query, resp) ==
    /\ tx[c] \in HasHandle
    /\ LET out == queryRaw(db, query, resp, AdapterOptions)
           failed == out.err # NoErr
           rel == IF failed THEN Releaser(mutex, released[c]) ELSE [m |-> mutex, woken |-> {}]
       IN /\ db' = IF failed THEN [out.db EXCEPT !.inTx = FALSE] ELSE out.db
          /\ mutex' = rel.m
          /\ released' = [released EXCEPT ![c] = released[c] \/ failed]
          /\ tx' = [d \in DOMAIN tx |->
                       IF d = c THEN (IF failed /\ tx[c] = "Open" THEN "RolledBack" ELSE tx[c])
                       ELSE IF d \in rel.woken THEN "Acquired" ELSE tx[d]]
          /\ last' = Record("queryRaw", "tx", {c}, NoLevel, query, resp,
                            IF failed
                            THEN [out EXCEPT !.calls = out.calls \o CallsOf(<<"exec">>, "ROLLBACK")]
                            ELSE out)

\* queryRaw / executeRaw on a transaction handle: the queryable's own code on
\* the adapter's client, no lock involved.
TxQueryRaw(c, query, resp) ==
    /\ tx[c] \in HasHandle
    /\ LET out == queryRaw(db, query, resp, AdapterOptions)
       IN /\ db' = out.db
          /\ last' = Record("queryRaw", "tx", {c}, NoLevel, query, resp, out)
    /\ UNCHANGED <<mutex, tx, released>>

TxExecuteRaw(c, query, resp) ==
    /\ tx[c] \in HasHandle
    /\ LET out == executeRaw(db, query, resp, AdapterOptions)
       IN /\ db' = out.db
          /\ last' = Record("executeRaw", "tx", {c}, NoLevel, query, resp, out)
    /\ UNCHANGED <<mutex, tx, released>>

\* Mutant of AdapterQueryRaw: the call runs under the transaction lock, so it
\* waits while the lock is held.
AdapterQueryRawExclusive(query, resp) ==
    /\ mutex.value >= 1
    /\ LET out == queryRaw(db, query, resp, AdapterOptions)
       IN /\ db' = out.db
          /\ last' = Record("queryRaw", "adapter", {}, NoLevel, query, resp, out)
    /\ UNCHANGED <<mutex, tx, released>>

\* queryRaw / executeRaw / executeScript on the adapter itself.
AdapterQueryRaw(query, resp) ==
    /\ LET out == queryRaw(db, query, resp, AdapterOptions)
       IN /\ db' = out.db
          /\ last' = Record("queryRaw", "adapter", {}, NoLevel, query, resp, out)
    /\ UNCHANGED <<mutex, tx, released>>

AdapterExecuteRaw(query, resp) ==
    /\ LET out == executeRaw(db, query, resp, AdapterOptions)
       IN /\ db' = out.db
          /\ last' = Record("executeRaw", "adapter", {}, NoLevel, query, resp, out)
    /\ UNCHANGED <<mutex, tx, released>>

ExecuteScript(script, resp) ==
    /\ LET out == executeScript(db, script, resp)
       IN /\ db' = out.db
          /\ last' = Record("executeScript", "adapter", {}, NoLevel,
                            [NoQuery EXCEPT !.sql = script], resp, out)
    /\ UNCHANGED <<mutex, tx, released>>

\* dispose(): this.client.close(), whose failure is thrown as it is.
Dispose ==
    /\ LET x == EngineClose(db)
       IN /\ db' = x.db
          /\ last' = Record("dispose", "adapter", {}, NoLevel, NoQuery, NoResp,
                            Outcome(CallsOf(<<"close">>, ""), x.err, x.db,
                                    IF x.err = NoError THEN NoErr
                                    ELSE [NoErr EXCEPT !.name = "Error", !.code = x.err],
                                    [NoResult EXCEPT !.kind = "void"], <<>>))
    /\ UNCHANGED <<mutex, tx, released>>

\* -------------------------------------------------------------------- factory
\* A URL is the sequence of its parts, so that a leading "file:" can be told
\* from the rest: 'file:./dev.db' is <<"file:", "./dev.db">>, '' is <<>>.
Memory == <<":memory:">>

\* An optional value is the set of at most one value.
None == {}

Some(v) == {v}

\* a ?? b
OrElse(a, b) == IF a = None THEN b ELSE CHOOSE v \in a : TRUE

\* url.replace(/^file:/, '')
StripFilePrefix(url) ==
    IF url # <<>> /\ Head(url) = "file:" THEN Tail(url) ELSE url

\* const { url, ...config } = input
RestOf(input) == [k \in DOMAIN input \ {"url"} |-> input[k]]

\* new DatabaseSync(dbPath, config): an open connection outside a transaction.
DatabaseSync(dbPath, config) ==
    [path |-> dbPath, config |-> config, db |-> [open |-> TRUE, inTx |-> FALSE]]

createNodeSQLiteClient(input) ==
    DatabaseSync(StripFilePrefix(input.url), RestOf(input))

\* Mutant of ShadowUrl: without a shadow URL the primary database is opened.
ShadowUrlOrPrimary(config, options) == OrElse(options.shadowDatabaseUrl, config.url)

\* connectToShadowDb, line 281: this.#options?.shadowDatabaseUrl ?? ':memory:'
ShadowUrl(config, options) == OrElse(options.shadowDatabaseUrl, Memory)

NewMutex == [value |-> 1, queue |-> <<>>]

\* Mutant of MutexFor: one lock, made with the first adapter, serves them all.
MutexShared(ms) == IF ms = <<>> THEN Len(ms) + 1 ELSE Len(ms)

\* #mutex = new Mutex(), line 191: an instance field, so each adapter that is
\* constructed makes a lock of its own.  The result is its place in mutexes.
MutexFor(ms) == Len(ms) + 1

\* new PrismaNodeSQLiteAdapter(client, adapterOptions)
PrismaNodeSQLiteAdapter(client, adapterOptions, m) ==
    [client |-> client, adapterOptions |-> adapterOptions, mutex |-> m]

\* Mutant of NodeSQLiteTransaction: the adapter options are not handed on.
NodeSQLiteTransactionWithoutOptions(client, options, adapterOptions, unlockParent) ==
    [client |-> client, options |-> options,
     adapterOptions |-> [adapterOptions EXCEPT !.timestampFormat = Undefined],
     unlockParent |-> unlockParent, called |-> FALSE]

\* new NodeSQLiteTransaction(client, options, adapterOptions, unlockParent);
\* called is the flag of the releaser unlockParent is.
NodeSQLiteTransaction(client, options, adapterOptions, unlockParent) ==
    [client |-> client, options |-> options, adapterOptions |-> adapterOptions,
     unlockParent |-> unlockParent, called |-> FALSE]

NoAdapter == 0

NoTransaction ==
    NodeSQLiteTransaction(NoAdapter, TransactionOptions,
                          [shadowDatabaseUrl |-> None, timestampFormat |-> Undefined],
                          NoAdapter)

\* A caller's call or transaction: the state as for tx, the adapter it is on
\* and the transaction object once one was returned.
Txn(state, a, t) == [state |-> state, adapter |-> a, t |-> t]

NoCalls == [handle |-> NoAdapter, calls |-> <<>>, boundArgs |-> <<>>]

Issued(h, out) == [handle |-> h, calls |-> out.calls, boundArgs |-> out.boundArgs]

\* connect / connectToShadowDb: a new connection, a new adapter around it.
ConnectTo(url) ==
    /\ Len(adapters) < MaxAdapters
    /\ LET m == MutexFor(mutexes)
       IN /\ handles' = Append(handles,
                               createNodeSQLiteClient([factory.config EXCEPT !.url = url]))
          /\ mutexes' = IF m > Len(mutexes) THEN Append(mutexes, NewMutex) ELSE mutexes
          /\ adapters' = Append(adapters,
                                PrismaNodeSQLiteAdapter(Len(handles) + 1, factory.options, m))
    /\ issued' = NoCalls
    /\ UNCHANGED <<factory, txns>>

Connect == ConnectTo(factory.config.url)

ConnectToShadowDb == ConnectTo(ShadowUrl(factory.config, factory.options))

\* adapter.startTransaction up to its await, on adapter a.
StartTransactionOn(a, c, isolationLevel) ==
    /\ txns[c].state \in Settled
    /\ IF IsolationRejected(isolationLevel)
       THEN UNCHANGED <<mutexes, txns>>
       ELSE LET acq == MutexAcquire(mutexes[adapters[a].mutex], c)
            IN /\ mutexes' = [mutexes EXCEPT ![adapters[a].mutex] = acq.m]
               /\ txns' = [txns EXCEPT ![c] =
                              Txn(IF acq.granted THEN "Acquired" ELSE "Waiting", a,
                                  NoTransaction)]
    /\ issued' = NoCalls
    /\ UNCHANGED <<factory, handles, adapters>>

\* Mutant of ResumeStartTransactionOn: BEGIN is run by a caller whether or
\* not the lock was handed to it.
ResumeStartTransactionUnlocked(c) ==
    /\ txns[c].state \in {"Acquired", "Waiting"}
    /\ LET adapter == adapters[txns[c].adapter]
           out == BeginTransaction(handles[adapter.client].db)
       IN /\ handles' = [handles EXCEPT ![adapter.client].db = out.db]
          /\ txns' = [txns EXCEPT ![c] =
                         IF out.err # NoErr
                         THEN Txn("Failed", txns[c].adapter, NoTransaction)
                         ELSE Txn("Open", txns[c].adapter,
                                  NodeSQLiteTransaction(adapter.client, TransactionOptions,
                                                        adapter.adapterOptions,
                                                        adapter.mutex))]
          /\ issued' = Issued(adapter.client, out)
    /\ UNCHANGED <<factory, mutexes, adapters>>

\* adapter.startTransaction after its await: BEGIN on this.client, then the
\* transaction around this.client, this.adapterOptions and the releaser.
ResumeStartTransactionOn(c) ==
    /\ txns[c].state = "Acquired"
    /\ LET adapter == adapters[txns[c].adapter]
           out == BeginTransaction(handles[adapter.client].db)
       IN /\ handles' = [handles EXCEPT ![adapter.client].db = out.db]
          /\ txns' = [txns EXCEPT ![c] =
                         IF out.err # NoErr
                         THEN Txn("Failed", txns[c].adapter, NoTransaction)
                         ELSE Txn("Open", txns[c].adapter,
                                  NodeSQLiteTransaction(adapter.client, TransactionOptions,
                                                        adapter.adapterOptions,
                                                        adapter.mutex))]
          /\ issued' = Issued(adapter.client, out)
    /\ UNCHANGED <<factory, mutexes, adapters>>

\* transaction.commit / rollback: the releaser of the transaction's lock.
EndTransactionOn(c, state) ==
    /\ txns[c].state \in HasHandle
    /\ LET t == txns[c].t
           rel == Releaser(mutexes[t.unlockParent], t.called)
       IN /\ mutexes' = [mutexes EXCEPT ![t.unlockParent] = rel.m]
          /\ txns' = [d \in DOMAIN txns |->
                         IF d = c
                         THEN Txn(IF txns[c].state = "Open" THEN state ELSE txns[c].state,
                                  txns[c].adapter, [t EXCEPT !.called = TRUE])
                         ELSE IF d \in rel.woken
                         THEN [txns[d] EXCEPT !.state = "Acquired"]
                         ELSE txns[d]]
    /\ issued' = NoCalls
    /\ UNCHANGED <<factory, handles, adapters>>

CommitOn(c) == EndTransactionOn(c, "Committed")

RollbackOn(c) == EndTransactionOn(c, "RolledBack")

\* transaction.executeRaw: on the transaction's client with its adapter options.
ExecuteRawInTransaction(c, query, resp) ==
    /\ txns[c].state \in HasHandle
    /\ LET t == txns[c].t
           out == executeRaw(handles[t.client].db, query, resp, t.adapterOptions)
       IN /\ handles' = [handles EXCEPT ![t.client].db = out.db]
          /\ issued' = Issued(t.client, out)
    /\ UNCHANGED <<factory, mutexes, adapters, txns>>

\* adapter.executeRaw on adapter a.
ExecuteRawOn(a, query, resp) ==
    /\ LET adapter == adapters[a]
           out == executeRaw(handles[adapter.client].db, query, resp, adapter.adapterOptions)
       IN /\ handles' = [handles EXCEPT ![adapter.client].db = out.db]
          /\ issued' = Issued(adapter.client, out)
    /\ UNCHANGED <<factory, mutexes, adapters, txns>>

\* adapter.dispose on adapter a.
DisposeOn(a) ==
    /\ LET client == adapters[a].client
           x == EngineClose(handles[client].db)
       IN /\ handles' = [handles EXCEPT ![client].db = x.db]
          /\ issued' = [handle |-> client, calls |-> CallsOf(<<"close">>, ""),
                        boundArgs |-> <<>>]
    /\ UNCHANGED <<factory, mutexes, adapters, txns>>

\* --------------------------------------------------------------------- inputs
ColName(i) == <<"c1", "c2", "c3", "c4">>[i]

ColumnCounts == {1, 2}

Columns(declTypes) ==
    [i \in 1..Len(declTypes) |-> [name |-> ColName(i), type |-> declTypes[i]]]

RowSets(n) == UNION {[1..k -> [1..n -> Values]] : k \in 0..MaxRows}

ChangeCounts == {Zero, Num(0, 1), U32Max, Num(4, 0), Num(2^23, 1)}

Faults == {"none", "prepare", "bind", "step"}

\* What the engine may answer to a statement yielding rows, and to a write.
SelectResponse(declTypes, rows) ==
    [fault |-> "none", columns |-> Columns(declTypes), rows |-> rows, changes |-> Zero]

FailedSelectResponses ==
    {[fault |-> f, columns |-> Columns(<<NoDeclType>>), rows |-> <<>>, changes |-> Zero] :
        f \in Faults \ {"none"}}

WriteResponses ==
    {[fault |-> f, columns |-> <<>>, rows |-> <<>>, changes |-> n] :
        f \in Faults, n \in ChangeCounts}

ArgLists == {<<>>, <<"true">>}

ArgTypesOf(args) == [i \in 1..Len(args) |-> "Boolean"]

Query(sql, args) == [sql |-> sql, args |-> args, argTypes |-> ArgTypesOf(args)]

\* The protocol specification draws statements from a small set: transaction
\* control, one read and one write, each succeeding or failing.
ProtocolSql == {"BEGIN", "COMMIT", "ROLLBACK", "SELECT", "UPDATE"}

ProtocolResponses(sql) ==
    CASE sql = "SELECT" ->
            {[fault |-> f, columns |-> Columns(<<NoDeclType>>), rows |-> <<<<"5">>>>,
              changes |-> Zero] : f \in {"none", "step"}}
      [] sql = "UPDATE" ->
            {[fault |-> f, columns |-> <<>>, rows |-> <<>>, changes |-> Num(0, 1)] :
                f \in Faults}
      [] OTHER -> {NoResp}

\* The factory of the README, and the configurations the factory
\* specifications draw theirs from.
ExampleFactory ==
    [config |-> [url |-> <<"file:", "./prisma/dev.db">>, readOnly |-> FALSE],
     options |-> [shadowDatabaseUrl |-> None, timestampFormat |-> Undefined]]

TimestampFormats == {Undefined, "iso8601", "unixepoch-ms"}

PrimaryUrls == {Memory, <<"file:", "./prisma/dev.db">>, <<"./prisma/dev.db">>}

ShadowUrls ==
    {None, Some(<<"file:", "./shadow.db">>), Some(<<"file:", "./prisma/dev.db">>),
     Some(Memory), Some(<<>>)}

FactoryLevels == {NoLevel, "SERIALIZABLE", "READ COMMITTED"}

FactoryQueries ==
    {Query("COMMIT", <<>>),
     [sql |-> "UPDATE", args |-> <<DateTimeArg>>, argTypes |-> <<"DateTime">>]}

\* -------------------------------------------------------------- specifications
\* No adapter was made by the factory yet.
NoAdapters ==
    /\ handles = <<>>
    /\ mutexes = <<>>
    /\ adapters = <<>>
    /\ txns = [c \in Callers |-> Txn("Idle", NoAdapter, NoTransaction)]
    /\ issued = NoCalls

\* One adapter, as its constructor leaves it, around an open connection.
InitAdapter ==
    /\ db = [open |-> TRUE, inTx |-> FALSE]
    /\ mutex = [value |-> 1, queue |-> <<>>]
    /\ tx = [c \in LockCallers |-> "Idle"]
    /\ released = [c \in LockCallers |-> FALSE]
    /\ last = Record("none", "adapter", {}, NoLevel, NoQuery, NoResp,
                     NoOutcome([open |-> TRUE, inTx |-> FALSE]))

Init ==
    /\ factory = ExampleFactory
    /\ NoAdapters
    /\ InitAdapter

Next ==
    \/ /\ \E c \in Callers, level \in Levels : StartTransaction(c, level)
       /\ UNCHANGED factoryVars
    \/ /\ \E c \in Callers : ResumeStartTransaction(c)
       /\ UNCHANGED factoryVars
    \/ /\ \E c \in Callers : Commit(c)
       /\ UNCHANGED factoryVars
    \/ /\ \E c \in Callers : Rollback(c)
       /\ UNCHANGED factoryVars
    \/ /\ \E c \in Callers, sql \in ProtocolSql :
             \E resp \in ProtocolResponses(sql) : TxQueryRaw(c, Query(sql, <<>>), resp)
       /\ UNCHANGED factoryVars
    \/ /\ \E c \in Callers, sql \in ProtocolSql :
             \E resp \in ProtocolResponses(sql) : TxExecuteRaw(c, Query(sql, <<>>), resp)
       /\ UNCHANGED factoryVars
    \/ /\ \E sql \in ProtocolSql :
             \E resp \in ProtocolResponses(sql) : AdapterQueryRaw(Query(sql, <<>>), resp)
       /\ UNCHANGED factoryVars
    \/ /\ \E sql \in ProtocolSql :
             \E resp \in ProtocolResponses(sql) : AdapterExecuteRaw(Query(sql, <<>>), resp)
       /\ UNCHANGED factoryVars
    \/ /\ \E sql \in ProtocolSql :
             \E resp \in ProtocolResponses(sql) : ExecuteScript(sql, resp)
       /\ UNCHANGED factoryVars
    \/ /\ Dispose
       /\ UNCHANGED factoryVars

Spec == Init /\ [][Next]_vars

\* The queryable alone: one call on a freshly constructed adapter, on every
\* result set and change count within the bounds.
Fresh == last.op = "none"

NextQuery ==
    \/ /\ Fresh
       /\ \E n \in ColumnCounts, k \in 0..MaxRows :
             \E declTypes \in [1..n -> DeclTypes], rows \in [1..k -> [1..n -> Values]] :
                AdapterQueryRaw(Query("SELECT", <<>>), SelectResponse(declTypes, rows))
       /\ UNCHANGED factoryVars
    \/ /\ Fresh
       /\ \E args \in ArgLists, resp \in FailedSelectResponses \cup WriteResponses :
             AdapterQueryRaw(Query(IF resp.columns = <<>> THEN "UPDATE" ELSE "SELECT", args),
                             resp)
       /\ UNCHANGED factoryVars
    \/ /\ Fresh
       /\ \E args \in ArgLists, resp \in FailedSelectResponses \cup WriteResponses :
             AdapterExecuteRaw(Query(IF resp.columns = <<>> THEN "UPDATE" ELSE "SELECT", args),
                               resp)
       /\ UNCHANGED factoryVars

SpecQuery == Init /\ [][NextQuery]_vars

\* The lock alone: callers start transactions, end the engine's transaction
\* with a statement of their own and commit or roll back.
NextLock ==
    \/ /\ \E c \in LockCallers : StartTransaction(c, NoLevel)
       /\ UNCHANGED factoryVars
    \/ /\ \E c \in LockCallers : ResumeStartTransaction(c)
       /\ UNCHANGED factoryVars
    \/ /\ \E c \in LockCallers : Commit(c)
       /\ UNCHANGED factoryVars
    \/ /\ \E c \in LockCallers : Rollback(c)
       /\ UNCHANGED factoryVars
    \/ /\ \E c \in LockCallers, sql \in {"COMMIT", "ROLLBACK"} :
             TxExecuteRaw(c, Query(sql, <<>>), NoResp)
       /\ UNCHANGED factoryVars

SpecLock == Init /\ [][NextLock]_vars

\* The factory of the README and the adapters it makes, each with the
\* callers' transactions on it.
NextFactory ==
    \/ /\ Connect
       /\ UNCHANGED adapterVars
    \/ /\ ConnectToShadowDb
       /\ UNCHANGED adapterVars
    \/ /\ \E a \in DOMAIN adapters, c \in Callers, level \in FactoryLevels :
             StartTransactionOn(a, c, level)
       /\ UNCHANGED adapterVars
    \/ /\ \E c \in Callers : ResumeStartTransactionOn(c)
       /\ UNCHANGED adapterVars
    \/ /\ \E c \in Callers : CommitOn(c)
       /\ UNCHANGED adapterVars
    \/ /\ \E c \in Callers : RollbackOn(c)
       /\ UNCHANGED adapterVars
    \/ /\ \E c \in Callers, query \in FactoryQueries :
             ExecuteRawInTransaction(c, query, NoResp)
       /\ UNCHANGED adapterVars
    \/ /\ \E a \in DOMAIN adapters, query \in FactoryQueries :
             ExecuteRawOn(a, query, NoResp)
       /\ UNCHANGED adapterVars
    \/ /\ \E a \in DOMAIN adapters : DisposeOn(a)
       /\ UNCHANGED adapterVars

SpecFactory == Init /\ [][NextFactory]_vars

\* The same, for a factory constructed with each timestamp format.
InitOptions ==
    /\ factory \in {[ExampleFactory EXCEPT !.options.timestampFormat = f] :
                        f \in TimestampFormats}
    /\ NoAdapters
    /\ InitAdapter

SpecOptions == InitOptions /\ [][NextFactory]_vars

\* The factory alone, on every configuration: connections are opened and
\* closed.
InitConnect ==
    /\ factory \in {[ExampleFactory EXCEPT !.config.url = url, !.config.readOnly = ro,
                                           !.options.shadowDatabaseUrl = shadow] :
                        url \in PrimaryUrls, ro \in BOOLEAN, shadow \in ShadowUrls}
    /\ NoAdapters
    /\ InitAdapter

NextConnect ==
    \/ /\ Connect
       /\ UNCHANGED adapterVars
    \/ /\ ConnectToShadowDb
       /\ UNCHANGED adapterVars
    \/ /\ \E a \in DOMAIN adapters : DisposeOn(a)
       /\ UNCHANGED adapterVars

SpecConnect == InitConnect /\ [][NextConnect]_vars

\* ----------------------------------------------------------------------- claims
Open(c) == tx[c] = "Open"

\* The callers whose acquisition of the lock is live: the lock was handed to
\* them and they have not called the releaser.
Holders == {c \in Callers : tx[c] \in {"Acquired", "Open"}}

AtMostOneOpen ==
    /\ Cardinality({c \in Callers : Open(c)}) <= 1
    /\ Cardinality(Holders) <= 1
    /\ (Holders # {} => mutex.value = 0)

OpenOnlyAfterTerminal ==
    \A c \in Callers :
        (~Open(c) /\ Open(c)') =>
            /\ tx[c] = "Acquired"
            /\ \A d \in Callers \ {c} : ~Open(d) /\ ~Open(d)'

\* C1: at most one transaction of the adapter is Open at any time, at most one
\* caller holds the lock, and a caller's transaction becomes Open only in a
\* step from a state where it holds the lock and no other transaction is Open
\* (every transaction opened before it is Committed or RolledBack).
C1_MutualExclusion == []AtMostOneOpen /\ [][OpenOnlyAfterTerminal]_vars

\* A second caller's transaction is Open after the first one's was ended.
C1_Witness ==
    \E c, d \in Callers :
        /\ c # d
        /\ tx[c] \in Terminal
        /\ Open(d)
        /\ last.op = "startTransaction.resume"
        /\ last.caller = {d}

\* C2: the lock is never held without a live acquisition behind it: whenever
\* it is locked, some caller is about to run BEGIN or has an Open transaction;
\* after a commit, a rollback or a failed startTransaction it is free again
\* (or held by another caller).
C2_LockReleasedOnAllPaths ==
    mutex.value = 0 => Holders # {}

\* The lock, once held with no live acquisition, stays so: no step frees it.
Leaked == mutex.value = 0 /\ Holders = {}

LeakIsPermanent == [][Leaked => Leaked']_vars

\* C3: a startTransaction call with a level other than SERIALIZABLE fails at
\* once with InvalidIsolationLevel carrying that level, calls no engine
\* method and leaves the lock, the queue and the connection as they were; with
\* no level or SERIALIZABLE it is not rejected and goes on to the lock.  Every
\* caller's transaction is left as it was by a rejected call.
C3_Step ==
    last'.op = "startTransaction" =>
        \A c \in last'.caller :
            IF last'.level \in IsolationLevels \ {"SERIALIZABLE"}
            THEN /\ last'.err = [name |-> "DriverAdapterError",
                                 kind |-> "InvalidIsolationLevel",
                                 level |-> last'.level, code |-> NoError]
                 /\ last'.calls = <<>>
                 /\ UNCHANGED <<db, mutex, tx, released>>
            ELSE /\ last'.err = NoErr
                 /\ tx'[c] \in {"Acquired", "Waiting"}
                 /\ last'.calls = <<>>

C3_IsolationLevelRejection == [][C3_Step]_vars

\* A call is rejected while another caller's transaction is Open.
C3_Witness ==
    /\ last.op = "startTransaction"
    /\ last.level = "READ COMMITTED"
    /\ last.err.kind = "InvalidIsolationLevel"
    /\ \E c \in last.caller, d \in Callers : c # d /\ tx[c] \in Settled /\ Open(d)

\* C4: a caller blocked in startTransaction always has a live acquisition
\* ahead of it (a caller about to run BEGIN or an Open transaction), whose end
\* hands it the lock; it is never left queued with every transaction ahead of
\* it ended.
C4_BlockedCallerHasLiveHolder ==
    \A c \in Callers : tx[c] = "Waiting" => Holders # {}

\* C5: a queryRaw or executeRaw that fails on an Open transaction leaves the
\* transaction Open, the lock and its queue untouched and the connection as it
\* was, and the only SQL the call handed to the engine is the statement itself
\* (the layer adds no ROLLBACK).
C5_Step ==
    \A c \in Callers :
        ( /\ last'.on = "tx"
          /\ last'.op \in {"queryRaw", "executeRaw"}
          /\ last'.caller = {c}
          /\ last'.err # NoErr
          /\ Open(c) ) =>
            /\ Open(c)'
            /\ UNCHANGED <<mutex, released, tx, db>>
            /\ \A i \in DOMAIN last'.calls : last'.calls[i].sql = last'.query.sql

C5_FailedStatementKeepsTransactionOpen == [][C5_Step]_vars

\* A statement has failed inside an Open transaction, which still holds the lock.
C5_Witness ==
    \E c \in Callers :
        /\ last.on = "tx"
        /\ last.op = "queryRaw"
        /\ last.caller = {c}
        /\ last.engineErr = "SQLITE_CONSTRAINT_UNIQUE"
        /\ last.err.name = "DriverAdapterError"
        /\ Open(c)
        /\ mutex.value = 0
        /\ db.inTx

Count(calls, methods) ==
    Cardinality({i \in DOMAIN calls : calls[i].method \in methods})

\* C6: in queryRaw, executeRaw, executeScript and startTransaction an engine
\* failure is thrown to the caller as the DriverAdapterError the translator
\* makes of it, no result is returned with it, a call that the engine did not
\* fail throws nothing, and the statement is prepared and stepped at most once.
C6_EngineFailuresSurfaceOnce ==
    last.op \in {"queryRaw", "executeRaw", "executeScript", "startTransaction.resume"} =>
        /\ Count(last.calls, {"prepare"}) <= 1
        /\ Count(last.calls, {"run", "all", "exec"}) <= 1
        /\ IF last.engineErr # NoError
           THEN /\ last.err = [name |-> "DriverAdapterError",
                               kind |-> convertDriverError(last.engineErr).kind,
                               level |-> NoLevel,
                               code |-> last.engineErr]
                /\ last.result = NoResult
           ELSE last.err = NoErr

\* A queryRaw whose statement the engine failed while stepping it.
C6_Witness ==
    /\ last.op = "queryRaw"
    /\ last.engineErr = "SQLITE_CONSTRAINT_UNIQUE"
    /\ last.err.kind = "UniqueConstraintViolation"
    /\ last.calls[Len(last.calls)].method = "all"
    /\ last.result = NoResult

\* C7: the count executeRaw returns is within [0, 2^32 - 1].
C7_CountWithinU32 ==
    (last.op = "executeRaw" /\ last.err = NoErr) => InU32(last.result.count)

\* C8: a successful queryRaw returns the engine's rows in their order, none
\* added or dropped; columnNames, columnTypes and every row have the length of
\* the engine's column list; every cell of column i is converted under
\* columnTypes[i]; and for a column without a declared type, columnTypes[i] is
\* the type of the first non-null value of the column in row order, "unknown"
\* when the column holds nulls only.
C8_OneTypeVectorPerResultSet ==
    (last.op = "queryRaw" /\ last.err = NoErr /\ Len(last.resp.columns) > 0) =>
        LET R == last.result
            E == last.resp
            n == Len(E.columns)
        IN /\ Len(R.columnNames) = n
           /\ Len(R.columnTypes) = n
           /\ Len(R.rows) = Len(E.rows)
           /\ \A k \in 1..Len(E.rows) :
                 /\ Len(R.rows[k]) = n
                 /\ \A i \in 1..n :
                       /\ R.rows[k][i].v = E.rows[k][i]
                       /\ R.rows[k][i].as = R.columnTypes[i]
           /\ \A i \in 1..n :
                 /\ R.columnNames[i] = E.columns[i].name
                 /\ E.columns[i].type = NoDeclType =>
                       /\ (\A k \in 1..Len(E.rows) : E.rows[k][i] = NullValue)
                             => R.columnTypes[i] = "unknown"
                       /\ \A k \in 1..Len(E.rows) :
                             ( /\ E.rows[k][i] # NullValue
                               /\ \A j \in 1..(k - 1) : E.rows[j][i] = NullValue )
                             => R.columnTypes[i] =
                                   (IF E.rows[k][i] = "5" THEN "integer" ELSE "text")

\* The rows [null, 5, "x"] of an undeclared column come back as integer cells.
C8_Witness ==
    /\ last.op = "queryRaw"
    /\ last.resp.columns = <<[name |-> "c1", type |-> NoDeclType]>>
    /\ last.resp.rows = << <<NullValue>>, <<"5">>, <<"x">> >>
    /\ last.result.columnTypes = <<"integer">>
    /\ last.result.rows[3] = <<[v |-> "x", as |-> "integer"]>>

\* C9: a queryRaw whose statement has no columns and which the engine does not
\* fail steps the statement exactly once, with run() and the converted
\* arguments, and returns the empty result set.
C9_PureWriteReturnsEmptyResultSet ==
    ( /\ last.op = "queryRaw"
      /\ Len(last.resp.columns) = 0
      /\ last.engineErr = NoError ) =>
        /\ last.err = NoErr
        /\ last.result = [kind |-> "resultset", columnNames |-> <<>>,
                          columnTypes |-> <<>>, rows |-> <<>>, count |-> Zero]
        /\ Count(last.calls, {"run"}) = 1
        /\ Count(last.calls, {"all", "exec"}) = 0
        /\ last.boundArgs =
              [i \in 1..Len(last.query.args) |->
                  mapArg(last.query.args[i], last.query.argTypes[i], AdapterOptions)]

\* A write with one bound argument went through queryRaw.
C9_Witness ==
    /\ last.op = "queryRaw"
    /\ last.query.sql = "UPDATE"
    /\ last.resp.columns = <<>>
    /\ last.query.args = <<"true">>
    /\ last.boundArgs = <<"1">>
    /\ last.result.kind = "resultset"
    /\ last.result.rows = <<>>

\* C10: queryRaw, executeRaw and executeScript on the adapter can run in every
\* state (whoever holds the lock or queues for it), and leave the lock, its
\* queue, the releasers and every caller's transaction as they were.
PlainCallsEnabled ==
    \A resp \in ProtocolResponses("UPDATE") :
        /\ ENABLED AdapterQueryRaw(Query("UPDATE", <<>>), resp)
        /\ ENABLED AdapterExecuteRaw(Query("UPDATE", <<>>), resp)
        /\ ENABLED ExecuteScript("UPDATE", resp)

C10_Step ==
    (last'.on = "adapter" /\ last'.op \in {"queryRaw", "executeRaw", "executeScript"}) =>
        /\ UNCHANGED <<mutex, released, tx>>
        /\ last'.result.kind # "pending"

C10_PlainCallsBypassLock == []PlainCallsEnabled /\ [][C10_Step]_vars

\* A plain query returned while a transaction is Open and a caller is queued.
C10_Witness ==
    /\ last.on = "adapter"
    /\ last.op = "queryRaw"
    /\ last.err = NoErr
    /\ \E c \in Callers : Open(c)
    /\ mutex.queue # <<>>

\* C12: commit and rollback call no engine method, throw nothing and leave
\* the connection as it was; all they do is call the releaser of the
\* transaction's acquisition.  The two steps of startTransaction hand the
\* engine no SQL but BEGIN, prepared and run at most once.
C12_Step ==
    /\ \A c \in Callers :
          (last'.op \in {"commit", "rollback"} /\ last'.caller = {c}) =>
              /\ last'.calls = <<>>
              /\ last'.engineErr = NoError
              /\ last'.err = NoErr
              /\ db' = db
              /\ released'[c]
              /\ mutex' = (IF released[c] THEN mutex
                           ELSE IF mutex.queue = <<>>
                                THEN [mutex EXCEPT !.value = mutex.value + 1]
                                ELSE [mutex EXCEPT !.queue = Tail(mutex.queue)])
              /\ \A d \in Callers \ {c} : released'[d] = released[d]
    /\ last'.op = "startTransaction" => last'.calls = <<>>
    /\ last'.op = "startTransaction.resume" =>
          /\ \A i \in DOMAIN last'.calls : last'.calls[i].sql = "BEGIN"
          /\ Count(last'.calls, {"prepare"}) = 1
          /\ Count(last'.calls, {"run", "all", "exec"}) <= 1

C12_EndIssuesNoSql == [][C12_Step]_vars

\* A transaction was committed and the engine is still inside the
\* transaction BEGIN opened: no COMMIT was issued.
C12_Witness ==
    \E c \in Callers :
        /\ last.op = "commit"
        /\ last.caller = {c}
        /\ tx[c] = "Committed"
        /\ db.inTx
        /\ mutex.value = 1

\* C13: a commit or rollback on a transaction that is already Committed or
\* RolledBack changes nothing: the lock, its queue, every caller's
\* transaction and the connection stay as they were and no engine method is
\* called.  No transaction leaves Committed or RolledBack while its caller
\* keeps the handle, and the lock's value stays within 0..1.
C13_Step ==
    /\ \A c \in Callers :
          ( /\ last'.op \in {"commit", "rollback"}
            /\ last'.caller = {c}
            /\ tx[c] \in Terminal ) =>
              /\ UNCHANGED <<mutex, tx, released, db>>
              /\ last'.calls = <<>>
    /\ \A c \in Callers :
          (tx[c] \in Terminal /\ tx'[c] # tx[c]) =>
              /\ last'.op = "startTransaction"
              /\ last'.caller = {c}

C13_TerminalStaysTerminal ==
    [](mutex.value \in {0, 1} /\ AtMostOneOpen) /\ [][C13_Step]_vars

\* commit or rollback was called again on an ended transaction while a later
\* transaction is Open and holds the lock.
C13_Witness ==
    \E c, d \in Callers :
        /\ c # d
        /\ last.op \in {"commit", "rollback"}
        /\ last.caller = {c}
        /\ tx[c] \in Terminal
        /\ Open(d)
        /\ mutex.value = 0

\* C17: blocked startTransaction calls are admitted in the order they
\* blocked.  The lock's queue holds the blocked callers, oldest first: a
\* caller that blocks goes to its end, only its head is ever admitted, and
\* no caller behind another in the queue is admitted or opens a transaction
\* while the other still waits.  A call that arrives while callers wait
\* goes behind them even if the lock was just released.
Before(q, c, d) ==
    \E i, j \in DOMAIN q : i < j /\ q[i] = c /\ q[j] = d

C17_Step ==
    /\ \A c \in LockCallers :
          (tx[c] = "Waiting" /\ tx'[c] # "Waiting") =>
              /\ c = Head(mutex.queue)
              /\ tx'[c] = "Acquired"
              /\ mutex'.queue = Tail(mutex.queue)
    /\ \A c \in LockCallers :
          (tx[c] # "Waiting" /\ tx'[c] = "Waiting") =>
              /\ mutex'.queue = Append(mutex.queue, c)
              /\ mutex.value = 0 \/ mutex.queue # <<>>
    /\ \A c, d \in LockCallers :
          Before(mutex.queue, c, d) =>
              /\ tx'[d] = "Waiting"
              /\ tx'[c] = "Waiting" => Before(mutex'.queue, c, d)

C17_FifoAdmission ==
    /\ [](\A c \in LockCallers :
             tx[c] = "Waiting" <=> (\E i \in DOMAIN mutex.queue : mutex.queue[i] = c))
    /\ [][C17_Step]_vars

\* Two callers blocked behind a holder; the holder ended its transaction and
\* the lock went to one of the two while the other still waits.
C17_Witness ==
    \E c, d, e \in LockCallers :
        /\ last.op \in {"commit", "rollback"}
        /\ last.caller = {e}
        /\ tx[e] \in Terminal
        /\ tx[c] = "Acquired"
        /\ tx[d] = "Waiting"
        /\ mutex.queue = <<d>>

\* The lock and the connection of adapter a.
LockOf(a) == mutexes[adapters[a].mutex]

HandleOf(a) == handles[adapters[a].client]

Touched(a) == LockOf(a)' # LockOf(a) \/ HandleOf(a)' # HandleOf(a)

\* C11: the adapters of one factory share neither connection nor lock.  A
\* step changes the lock or the connection of at most one adapter, the one
\* the caller whose call or transaction moved is on; a startTransaction
\* call waits exactly when the lock of its own adapter is taken, whatever
\* is open or waiting on the others; a dispose closes one connection and
\* leaves the others as they were; making another adapter changes none of
\* the adapters made before.
C11_Step ==
    /\ \A a, b \in DOMAIN adapters : (a # b /\ Touched(a)) => ~Touched(b)
    /\ \A a \in DOMAIN adapters : adapters'[a] = adapters[a]
    /\ Len(adapters') > Len(adapters) => \A a \in DOMAIN adapters : ~Touched(a)
    /\ \A c \in Callers :
          txns'[c] # txns[c] =>
              \A b \in DOMAIN adapters : b # txns'[c].adapter => ~Touched(b)
    /\ \A c \in Callers :
          (txns[c].state \in Settled /\ txns'[c].state \in {"Waiting", "Acquired"}) =>
              (txns'[c].state = "Waiting" <=> LockOf(txns'[c].adapter).value = 0)
    /\ \A a \in DOMAIN adapters :
          (HandleOf(a).db.open /\ ~HandleOf(a)'.db.open) =>
              \A h \in DOMAIN handles : h # adapters[a].client => handles'[h] = handles[h]

C11_AdaptersIndependent ==
    /\ [](\A a, b \in DOMAIN adapters :
             a # b => /\ adapters[a].client # adapters[b].client
                      /\ adapters[a].mutex # adapters[b].mutex)
    /\ [][C11_Step]_vars

\* Two transactions are Open at once, on two adapters, and one of the two
\* connections was closed by its adapter's dispose while the other is open
\* and inside its transaction.
C11_Witness ==
    \E c, d \in Callers :
        /\ txns[c].state = "Open"
        /\ txns[d].state = "Open"
        /\ txns[c].adapter # txns[d].adapter
        /\ ~HandleOf(txns[c].adapter).db.open
        /\ HandleOf(txns[d].adapter).db.inTx

\* C14: a transaction is returned only by the step of startTransaction
\* that follows the acquisition: the caller held the lock of the adapter
\* before the step and nobody else did, the step prepared and ran BEGIN
\* once on that adapter's connection, which entered its transaction, and
\* the transaction returned has usePhantomQuery = false, the adapter's
\* connection and the releaser of the adapter's lock.  The step that asks
\* for the lock calls no engine method, and BEGIN reaches a connection only
\* from a caller that holds the lock of the adapter around it.
BeginCalls == CallsOf(<<"prepare", "run">>, "BEGIN")

C14_Step ==
    /\ \A c \in Callers :
          (txns'[c].state = "Open" /\ txns[c].state # "Open") =>
              LET a == txns[c].adapter
              IN /\ txns[c].state = "Acquired"
                 /\ txns'[c].adapter = a
                 /\ LockOf(a).value = 0
                 /\ \A i \in DOMAIN LockOf(a).queue : LockOf(a).queue[i] # c
                 /\ \A d \in Callers \ {c} :
                       txns[d].adapter = a => txns[d].state \notin {"Acquired", "Open"}
                 /\ issued' = [handle |-> adapters[a].client, calls |-> BeginCalls,
                               boundArgs |-> <<>>]
                 /\ ~HandleOf(a).db.inTx
                 /\ HandleOf(a)'.db.inTx
                 /\ txns'[c].t.client = adapters[a].client
                 /\ txns'[c].t.unlockParent = adapters[a].mutex
                 /\ txns'[c].t.options.usePhantomQuery = FALSE
    /\ \A c \in Callers :
          (txns[c].state \in Settled /\ txns'[c].state \in {"Waiting", "Acquired"}) =>
              /\ issued' = NoCalls
              /\ handles' = handles
    /\ (\E i \in DOMAIN issued'.calls : issued'.calls[i].sql = "BEGIN") =>
          /\ Count(issued'.calls, {"prepare"}) = 1
          /\ Count(issued'.calls, {"run", "all", "exec"}) <= 1
          /\ \E c \in Callers :
                /\ txns[c].state = "Acquired"
                /\ adapters[txns[c].adapter].client = issued'.handle
                /\ txns'[c].state \in {"Open", "Failed"}

C14_BeginUnderLock == [][C14_Step]_vars

\* A transaction was just returned by the second adapter of the factory:
\* BEGIN ran on that adapter's connection, not on the first one's.
C14_Witness ==
    \E c \in Callers :
        /\ Len(adapters) = MaxAdapters
        /\ txns[c].state = "Open"
        /\ txns[c].adapter = Len(adapters)
        /\ issued = [handle |-> txns[c].t.client, calls |-> BeginCalls, boundArgs |-> <<>>]
        /\ HandleOf(txns[c].adapter).db.inTx
        /\ \A a \in DOMAIN adapters : a # txns[c].adapter => ~HandleOf(a).db.inTx

\* C16: the factory's options never change, every adapter it made holds
\* them, every transaction returned holds the options of its adapter, and
\* an adapter keeps its options through every operation.  A DateTime
\* argument is therefore bound, on any adapter and in any transaction, in
\* the timestamp format the factory was constructed with.
C16_InFactoryFormat(args) ==
    \A i \in DOMAIN args : args[i] = mapArg(DateTimeArg, "DateTime", factory.options)

C16_Step ==
    /\ factory' = factory
    /\ \A a \in DOMAIN adapters : adapters'[a].adapterOptions = adapters[a].adapterOptions
    /\ \A c \in Callers :
          (txns[c].state \in HasHandle /\ txns'[c].state \in HasHandle) =>
              txns'[c].t.adapterOptions = txns[c].t.adapterOptions

C16_TimestampFormatFixed ==
    /\ [](/\ \A a \in DOMAIN adapters : adapters[a].adapterOptions = factory.options
          /\ \A c \in Callers :
                txns[c].state \in HasHandle =>
                    txns[c].t.adapterOptions = adapters[txns[c].adapter].adapterOptions
          /\ C16_InFactoryFormat(issued.boundArgs))
    /\ [][C16_Step]_vars

\* A factory constructed for epoch milliseconds made two adapters; a
\* transaction of the second bound a DateTime argument as milliseconds
\* after it was committed.
C16_Witness ==
    \E c \in Callers :
        /\ factory.options.timestampFormat = "unixepoch-ms"
        /\ Len(adapters) = MaxAdapters
        /\ txns[c].state = "Committed"
        /\ txns[c].adapter = Len(adapters)
        /\ issued.handle = txns[c].t.client
        /\ issued.boundArgs = <<"1000">>

\* The connection the step opened, and the database a URL names: the URL
\* without a leading "file:".
Opened == handles'[Len(handles')]

DatabaseAt(url) == IF url # <<>> /\ Head(url) = "file:" THEN Tail(url) ELSE url

\* C15 as stated: connectToShadowDb opens the database at shadowDatabaseUrl
\* when one was given and ':memory:' otherwise, and what it opens is never
\* what the primary URL names; connect opens the primary URL without its
\* leading "file:"; both pass on every other parameter of the configuration.
C15_Stated ==
    /\ ConnectToShadowDb =>
          /\ Opened.path = (IF factory.options.shadowDatabaseUrl = None THEN Memory
                            ELSE DatabaseAt(OrElse(factory.options.shadowDatabaseUrl, Memory)))
          /\ Opened.path # DatabaseAt(factory.config.url)
          /\ Opened.config = [readOnly |-> factory.config.readOnly]
    /\ Connect =>
          /\ Opened.path = DatabaseAt(factory.config.url)
          /\ factory.config.url = Memory => Opened.path = Memory
          /\ Opened.config = [readOnly |-> factory.config.readOnly]

C15_ShadowNeverPrimary == [][C15_Stated]_vars

\* C15: connectToShadowDb opens the database at shadowDatabaseUrl when one
\* was given (the empty URL included) and ':memory:' otherwise, whatever
\* the primary URL is: the two are the same exactly when the configuration
\* names the same database twice.  connect opens the primary URL without
\* its leading "file:", ':memory:' as it is.  Both pass on every other
\* parameter of the configuration, and the connection is open.
C15_Amended ==
    /\ ConnectToShadowDb =>
          /\ Opened.path = (IF factory.options.shadowDatabaseUrl = None THEN Memory
                            ELSE DatabaseAt(OrElse(factory.options.shadowDatabaseUrl, Memory)))
          /\ Opened.config = [readOnly |-> factory.config.readOnly]
          /\ Opened.db.open
    /\ Connect =>
          /\ Opened.path = DatabaseAt(factory.config.url)
          /\ factory.config.url = Memory => Opened.path = Memory
          /\ Opened.config = [readOnly |-> factory.config.readOnly]
          /\ Opened.db.open

C15_ShadowIgnoresPrimary == [][C15_Amended]_vars

\* connect and connectToShadowDb were both called on a read-only factory
\* with 'file:' URLs: the two connections are at the two paths.
C15_Witness ==
    /\ factory.config.url = <<"file:", "./prisma/dev.db">>
    /\ factory.options.shadowDatabaseUrl = Some(<<"file:", "./shadow.db">>)
    /\ factory.config.readOnly
    /\ Len(handles) = MaxAdapters
    /\ \E g, h \in DOMAIN handles :
          /\ handles[g].path = <<"./prisma/dev.db">>
          /\ handles[h].path = <<"./shadow.db">>
          /\ handles[g].config.readOnly
          /\ handles[h].config.readOnly

====
